---- MODULE Spec2Model ----
(***************************************************************************)
(* A model of unsmry_reader.py: the SummaryData class that decodes an      *)
(* Eclipse summary specification file (.SMSPEC) and its data file          *)
(* (.UNSMRY).  Files are byte sequences; the readers are modelled byte by  *)
(* byte, block by block, as the code reads them.                           *)
(***************************************************************************)
EXTENDS Integers, Sequences, FiniteSets, TLC

(***************************************************************************)
(* Bounds of the model.                                                    *)
(***************************************************************************)
\* number of threads that issue vector() requests against one dataset object
NThreads == 2
\* number of vector() requests one thread issues
MaxCalls == 1

Min(a, b) == IF a < b THEN a ELSE b

(***************************************************************************)
(* Python values.  Every decoded element carries its Python type, so that  *)
(* == between values of different types is False, as in Python.            *)
(***************************************************************************)
PyInt(n) == [t |-> "int", v |-> n]
PyStr(s) == [t |-> "str", v |-> s]
\* a float is named by the four bytes struct.unpack('>f') decoded it from
PyReal(bs) == [t |-> "float", v |-> bs]
\* struct.unpack('<d') is stored undereferenced: a 1-tuple holding the float
PyDoub(bs) == [t |-> "tuple", v |-> bs]
PyBool(b) == [t |-> "bool", v |-> b]
PyEq(a, b) == a.t = b.t /\ a.v = b.v

(***************************************************************************)
(* f.read(n) at offset pos: the bytes left, at most n of them.             *)
(***************************************************************************)
FRead(file, pos, n) ==
    IF pos >= Len(file) \/ n <= 0 THEN <<>>
    ELSE SubSeq(file, pos + 1, Min(pos + n, Len(file)))

\* int.from_bytes(bs, byteorder='big'); of no bytes it is 0
\* (at most four bytes are ever read for an integer)
IntFromBytes(bs) ==
    LET n == Len(bs)
        digit(k) == IF k < n THEN bs[n - k] ELSE 0
    IN  digit(0) + 256 * digit(1) + 65536 * digit(2) + 16777216 * digit(3)

\* str.isspace() on the ASCII range
IsSpace(c) == c \in {9, 10, 11, 12, 13, 28, 29, 30, 31, 32}

\* str.strip()
Strip(s) ==
    LET kept == {k \in 1..Len(s) : ~IsSpace(s[k])}
        first == CHOOSE k \in kept : \A j \in kept : k <= j
        last == CHOOSE k \in kept : \A j \in kept : k >= j
    IN  IF kept = {} THEN <<>> ELSE SubSeq(s, first, last)

\* bytes.decode('utf-8', errors='strict') on bytes below 128 yields the same
\* codes; a byte of 128 or more that starts no valid sequence is an error.
\* The files of this model hold single bytes only, so any byte >= 128 is one.
Utf8Ok(bs) == \A k \in 1..Len(bs) : bs[k] < 128

(***************************************************************************)
(* The five element decoders and the short-string decoder.  kind is the    *)
(* reader called; each yields the element read from the bytes f.read()     *)
(* returned, or the error the decode raises.                               *)
(***************************************************************************)
KindLength(kind) == IF kind \in {"strings", "doubles"} THEN 8 ELSE 4

DecodeErr(kind, bs) ==
    CASE kind \in {"strings", "strings_short"} /\ ~Utf8Ok(bs) -> "UnicodeDecodeError"
      [] kind = "doubles" /\ Len(bs) # 8 -> "struct.error"
      [] kind = "reals" /\ Len(bs) # 4 -> "struct.error"
      [] OTHER -> ""

DecodeOne(kind, bs) ==
    CASE kind = "strings" -> PyStr(Strip(bs))
      [] kind = "strings_short" -> PyStr(bs)
      [] kind = "integers" -> PyInt(IntFromBytes(bs))
      [] kind = "doubles" -> PyDoub(bs)
      [] kind = "reals" -> PyReal(bs)
      [] kind = "logis" -> PyBool(IntFromBytes(bs) > 0)

\* for i in range(0, count//length): list.append(decode(f.read(length)))
\* The reads are consecutive: read k starts length * (k - 1) bytes after the
\* first, and past the end of the file a read returns what is left.  The
\* loop stops at the first read whose decode raises.
ReadElems(kind, file, pos, count) ==
    LET length == KindLength(kind)
        n == IF count > 0 THEN count \div length ELSE 0
        chunk(k) == FRead(file, pos + length * (k - 1), length)
        bad == {k \in 1..n : DecodeErr(kind, chunk(k)) # ""}
        stop == CHOOSE k \in bad : \A j \in bad : k <= j
        left == IF pos >= Len(file) THEN 0 ELSE Len(file) - pos
    IN  IF bad # {}
        THEN [err |-> DecodeErr(kind, chunk(stop)),
              val |-> [k \in 1..(stop - 1) |-> DecodeOne(kind, chunk(k))],
              pos |-> pos + Min(length * stop, left)]
        ELSE [err |-> "",
              val |-> [k \in 1..n |-> DecodeOne(kind, chunk(k))],
              pos |-> pos + Min(length * n, left)]

read_strings(file, pos, count) == ReadElems("strings", file, pos, count)
read_strings_short(file, pos, count) == ReadElems("strings_short", file, pos, count)
read_integers(file, pos, count) == ReadElems("integers", file, pos, count)
read_doubles(file, pos, count) == ReadElems("doubles", file, pos, count)
read_reals(file, pos, count) == ReadElems("reals", file, pos, count)
read_logis(file, pos, count) == ReadElems("logis", file, pos, count)

(***************************************************************************)
(* Text constants of the program, as character codes.                      *)
(***************************************************************************)
\* the record types of __read_record
S_INTE == <<73, 78, 84, 69>>
S_REAL == <<82, 69, 65, 76>>
S_DOUB == <<68, 79, 85, 66>>
S_CHAR == <<67, 72, 65, 82>>
S_LOGI == <<76, 79, 71, 73>>
\* the section names of the .UNSMRY file
S_SEQHDR == <<83, 69, 81, 72, 68, 82>>
S_MINISTEP == <<77, 73, 78, 73, 83, 84, 69, 80>>
S_PARAMS == <<80, 65, 82, 65, 77, 83>>
\* the section names of the .SMSPEC file
S_INTEHEAD == <<73, 78, 84, 69, 72, 69, 65, 68>>
S_RESTART == <<82, 69, 83, 84, 65, 82, 84>>
S_DIMENS == <<68, 73, 77, 69, 78, 83>>
S_STARTDAT == <<83, 84, 65, 82, 84, 68, 65, 84>>
S_RUNTIMEI == <<82, 85, 78, 84, 73, 77, 69, 73>>
S_RUNTIMED == <<82, 85, 78, 84, 73, 77, 69, 68>>
S_KEYWORDS == <<75, 69, 89, 87, 79, 82, 68, 83>>
S_WGNAMES == <<87, 71, 78, 65, 77, 69, 83>>
S_NUMS == <<78, 85, 77, 83>>
S_MEASRMNT == <<77, 69, 65, 83, 82, 77, 78, 84>>
S_UNITS == <<85, 78, 73, 84, 83>>
\* ':+:+:+:+', the blank well/group name
S_BLANK == <<58, 43, 58, 43, 58, 43, 58, 43>>
SmspecNames ==
    {S_INTEHEAD, S_RESTART, S_DIMENS, S_STARTDAT, S_RUNTIMEI, S_RUNTIMED,
     S_KEYWORDS, S_WGNAMES, S_NUMS, S_MEASRMNT, S_UNITS}
UnsmryNames == {S_SEQHDR, S_MINISTEP, S_PARAMS}

(***************************************************************************)
(* The files on disk.  The program only reads; these operators write the   *)
(* byte layout that __read_block_header and __read_record consume, so that *)
(* the inputs of the model are real files: a header is one framed record   *)
(* of 16 bytes (name, count, type), the elements follow in framed blocks.  *)
(***************************************************************************)
EncInt(n) ==
    <<(n \div 16777216) % 256, (n \div 65536) % 256, (n \div 256) % 256, n % 256>>

RECURSIVE Spaces(_)
Spaces(n) == IF n <= 0 THEN <<>> ELSE <<32>> \o Spaces(n - 1)
EncStr8(s) == s \o Spaces(8 - Len(s))

\* a framed record whose two length markers are given
FrameAs(lead, payload, trail) == EncInt(lead) \o payload \o EncInt(trail)
Frame(payload) == FrameAs(Len(payload), payload, Len(payload))

EncHeader(name, count, type) == Frame(EncStr8(name) \o EncInt(count) \o type)

RECURSIVE Flatten(_)
Flatten(ss) == IF ss = <<>> THEN <<>> ELSE Head(ss) \o Flatten(Tail(ss))

\* the blocks of a section: elems (each its bytes) cut as split says
RECURSIVE EncBlocks(_, _)
EncBlocks(elems, split) ==
    IF split = <<>> THEN <<>>
    ELSE <<Frame(Flatten(SubSeq(elems, 1, Head(split))))>>
         \o EncBlocks(SubSeq(elems, Head(split) + 1, Len(elems)), Tail(split))

\* a section as its pieces: the header, then one piece per block
EncSection(name, type, elems, split) ==
    <<EncHeader(name, Len(elems), type)>> \o EncBlocks(elems, split)

EncInts(ns) == [k \in 1..Len(ns) |-> EncInt(ns[k])]
EncStrs(ss) == [k \in 1..Len(ss) |-> EncStr8(ss[k])]

(***************************************************************************)
(* The logical content of the datasets: three vectors, MaxSteps report     *)
(* steps.  Vector 2 is a region-to-region flow stored from region 2 to     *)
(* region 1 (NUMS = 2 + 32768 * (1 + 10)).                                 *)
(***************************************************************************)
\* number of report steps (PARAMS sections) in a data file
MaxSteps == 2

K_TIME == <<84, 73, 77, 69>>
K_WOPR == <<87, 79, 80, 82>>
K_RWFT == <<82, 87, 70, 84>>
K_LBXX == <<76, 66, 88, 88>>
N_P1 == <<80, 49>>
N_P2 == <<80, 50>>
I_1_2 == <<49, 32, 50>>

Keywords == <<K_TIME, K_WOPR, K_RWFT>>
Wgnames == <<S_BLANK, N_P1, S_BLANK>>
Nums == <<0, 0, 2 + 32768 * (1 + 10)>>
Dimens == <<Len(Keywords), 2, 2, 1, 0, 0>>
StartDat == <<1, 1, 2020, 0, 0, 45250000>>

\* the four bytes of the REAL stored for column c (0-based) at step k
RealBytes(k, c) == <<63, 0, k, c>>
Row(k, n) == [c \in 1..n |-> RealBytes(k, c - 1)]

\* every way to cut n elements into non-empty blocks, as a sequence
RECURSIVE Compositions(_)
Compositions(n) ==
    IF n = 0 THEN <<<<>>>>
    ELSE Flatten([k \in 1..n |->
             [j \in 1..Len(Compositions(n - k)) |-> <<k>> \o Compositions(n - k)[j]]])

SmspecPieces(kwsplit) ==
    EncSection(S_DIMENS, S_INTE, EncInts(Dimens), <<Len(Dimens)>>)
    \o EncSection(S_KEYWORDS, S_CHAR, EncStrs(Keywords), kwsplit)
    \o EncSection(S_WGNAMES, S_CHAR, EncStrs(Wgnames), <<Len(Wgnames)>>)
    \o EncSection(S_NUMS, S_INTE, EncInts(Nums), <<Len(Nums)>>)
    \o EncSection(S_STARTDAT, S_INTE, EncInts(StartDat), <<Len(StartDat)>>)
    \o EncSection(S_RUNTIMED, S_DOUB, <<<<0, 0, 0, 0, 0, 0, 240, 63>>>>, <<1>>)

\* the pieces of report step k with n values in its PARAMS section
StepPieces(k, n, split) ==
    EncSection(S_MINISTEP, S_INTE, EncInts(<<k - 1>>), <<1>>)
    \o EncSection(S_PARAMS, S_REAL, Row(k, n), split)

UnsmryPieces(n, split) ==
    EncSection(S_SEQHDR, S_INTE, EncInts(<<7>>), <<1>>)
    \o Flatten([k \in 1..MaxSteps |-> StepPieces(k, n, split)])

GoodSmspec == Flatten(SmspecPieces(<<2, 1>>))
GoodUnsmry == Flatten(UnsmryPieces(Len(Keywords), <<2, 1>>))

(***************************************************************************)
(* Damaged files, made from the pieces of a good one.                      *)
(***************************************************************************)
ReplacePiece(pieces, j, p) == [k \in 1..Len(pieces) |-> IF k = j THEN p ELSE pieces[k]]
InsertPiece(pieces, j, p) ==
    SubSeq(pieces, 1, j - 1) \o <<p>> \o SubSeq(pieces, j, Len(pieces))
\* the piece with its trailing length marker four more than its leading one
BadTrail(piece) ==
    SubSeq(piece, 1, Len(piece) - 4) \o EncInt(IntFromBytes(SubSeq(piece, 1, 4)) + 4)
BadTrailAt(pieces, j) == ReplacePiece(pieces, j, BadTrail(pieces[j]))
Truncate(bytes, n) == SubSeq(bytes, 1, n)

SPieces == SmspecPieces(<<2, 1>>)
UPieces == UnsmryPieces(Len(Keywords), <<2, 1>>)
\* the pieces before the last report step: SEQHDR and the earlier steps
UBase == 2 + 5 * (MaxSteps - 1)
S_XYZ == <<88, 89, 90>>
S_XXXX == <<88, 88, 88, 88>>

Dataset(smspec, unsmry, wf, why) ==
    [smspec |-> smspec, unsmry |-> unsmry, wf |-> wf, why |-> why]
BadU(bytes, why) == Dataset(GoodSmspec, bytes, FALSE, why)
BadS(bytes, why) == Dataset(bytes, GoodUnsmry, FALSE, why)

\* well-formed: every way to cut the PARAMS sections into blocks
GoodDatasets ==
    [j \in 1..Len(Compositions(Len(Keywords))) |->
        Dataset(GoodSmspec,
                Flatten(UnsmryPieces(Len(Keywords), Compositions(Len(Keywords))[j])),
                TRUE, "good")]

\* the data file cut off at every offset of its last report step
TruncatedUnsmry ==
    LET from == Len(Flatten(SubSeq(UPieces, 1, UBase)))
    IN  [k \in 1..(Len(GoodUnsmry) - from) |->
            BadU(Truncate(GoodUnsmry, from + k - 1), "trunc")]

\* the specification file cut off at every offset of its KEYWORDS section
TruncatedSmspec ==
    LET from == Len(Flatten(SubSeq(SPieces, 1, 2)))
        to == Len(Flatten(SubSeq(SPieces, 1, 5)))
    IN  [k \in 1..(to - from) |-> BadS(Truncate(GoodSmspec, from + k - 1), "trunc")]

\* a data file whose PARAMS sections hold two names (CHAR) in one block
NamesUnsmry ==
    Flatten(EncSection(S_SEQHDR, S_INTE, EncInts(<<7>>), <<1>>)
            \o Flatten([k \in 1..MaxSteps |->
                   EncSection(S_MINISTEP, S_INTE, EncInts(<<k - 1>>), <<1>>)
                   \o EncSection(S_PARAMS, S_CHAR, EncStrs(<<N_P1, N_P2>>), <<2>>)]))

DamagedUnsmry ==
    << BadU(Flatten(BadTrailAt(UPieces, 1)), "badtrail"),
       BadU(Flatten(BadTrailAt(UPieces, 2)), "badtrail"),
       BadU(Flatten(BadTrailAt(UPieces, UBase + 3)), "badtrail"),
       BadU(Flatten(BadTrailAt(UPieces, UBase + 4)), "badtrail"),
       BadU(Flatten(BadTrailAt(UPieces, UBase + 5)), "badtrail"),
       \* a header with a blank name before the last step: an end marker
       BadU(Flatten(InsertPiece(UPieces, UBase + 1, EncHeader(<<>>, 0, S_INTE))),
            "endmark"),
       BadU(Flatten(InsertPiece(UPieces, UBase + 1,
                BadTrail(EncHeader(<<>>, 0, S_INTE)))), "endmark_badtrail"),
       \* a block of no bytes, and one of two bytes, inside the last PARAMS
       BadU(Flatten(InsertPiece(UPieces, UBase + 5, Frame(<<>>))), "zeroblock"),
       BadU(Flatten(InsertPiece(UPieces, UBase + 5, Frame(<<0, 0>>))), "shortblock"),
       BadU(Flatten(ReplacePiece(UPieces, UBase + 1, EncHeader(S_XYZ, 1, S_INTE))),
            "badname"),
       BadU(Flatten(ReplacePiece(UPieces, UBase + 3,
                EncHeader(S_PARAMS, Len(Keywords), S_XXXX))), "badtype"),
       \* PARAMS sections one value shorter than the KEYWORDS section
       BadU(Flatten(UnsmryPieces(Len(Keywords) - 1, <<Len(Keywords) - 1>>)),
            "shortrows"),
       \* the same, the values being 8-byte names
       BadU(NamesUnsmry, "shortnames") >>

\* the NUMS block declared two bytes longer than its three integers, the
\* trailing marker written as 14 * 65536: the marker the format puts after
\* 14 payload bytes differs from the leading 14
MisalignedSmspec ==
    Flatten(SubSeq(SPieces, 1, 7) \o SubSeq(SPieces, 10, 11)
            \o <<SPieces[8],
                 FrameAs(14, Flatten(EncInts(Nums)) \o <<0, 0>>, 14 * 65536)>>)

DamagedSmspec ==
    << BadS(Flatten(BadTrailAt(SPieces, 3)), "badtrail"),
       BadS(Flatten(BadTrailAt(SPieces, 4)), "badtrail"),
       BadS(Flatten(ReplacePiece(SPieces, 12, EncHeader(S_XYZ, 1, S_DOUB))), "badname"),
       BadS(Flatten(ReplacePiece(SPieces, 12, EncHeader(S_RUNTIMED, 1, S_XXXX))),
            "badtype"),
       BadS(MisalignedSmspec, "misaligned") >>

Datasets ==
    GoodDatasets \o DamagedUnsmry \o TruncatedUnsmry \o DamagedSmspec \o TruncatedSmspec

(***************************************************************************)
(* Datasets for the lookup of vector(): well-formed specification files    *)
(* with other vector tables, three vectors each, over the good data file.  *)
(***************************************************************************)
K_RCOM == <<82, 67, 79, 77>>
K_COFR == <<67, 79, 70, 82>>
K_SOFR == <<83, 79, 70, 82>>
K_GOPR == <<71, 79, 80, 82>>
K_WWCT == <<87, 87, 67, 84>>
N_G1 == <<71, 49>>
I_2_1 == <<50, 32, 49>>
I_3_7 == <<51, 32, 55>>
I_P1_3 == <<80, 49, 32, 51>>
I_P1_4 == <<80, 49, 32, 52>>

\* the number the file format stores for the pair (a, b)
Packed(a, b) == a + 32768 * (b + 10)

VectorTable(kws, wgs, nums) == [keywords |-> kws, wgnames |-> wgs, nums |-> nums]

LocatorTables ==
    << VectorTable(Keywords, Wgnames, Nums),
       \* one flow stored twice, and its reverse
       VectorTable(<<K_RWFT, K_RWFT, K_RWFT>>, <<S_BLANK, S_BLANK, S_BLANK>>,
                   <<Packed(2, 1), Packed(2, 1), Packed(1, 2)>>),
       \* region 1 with components 3 and 2, and a flow with the number of the latter
       VectorTable(<<K_RCOM, K_RCOM, K_RWFT>>, <<S_BLANK, S_BLANK, S_BLANK>>,
                   <<Packed(1, 3), Packed(1, 2), Packed(1, 2)>>),
       \* connection 3 of two wells, segment 3 of one
       VectorTable(<<K_COFR, K_SOFR, K_COFR>>, <<N_P2, N_P1, N_P1>>, <<3, 3, 3>>),
       \* wells out of alphabetical order, a group between them
       VectorTable(<<K_WOPR, K_GOPR, K_WOPR>>, <<N_P2, N_G1, N_P1>>, <<0, 0, 0>>),
       \* one well under two keywords, a group keyword with the blank name
       VectorTable(<<K_WOPR, K_WWCT, K_GOPR>>, <<N_P1, N_P1, S_BLANK>>, <<0, 0, 0>>),
       \* a keyword of eight spaces
       VectorTable(<<K_TIME, <<>>, K_WOPR>>, <<S_BLANK, S_BLANK, N_P1>>, <<0, 0, 0>>) >>

SmspecPiecesOf(table) ==
    EncSection(S_DIMENS, S_INTE, EncInts(Dimens), <<Len(Dimens)>>)
    \o EncSection(S_KEYWORDS, S_CHAR, EncStrs(table.keywords), <<2, 1>>)
    \o EncSection(S_WGNAMES, S_CHAR, EncStrs(table.wgnames), <<3>>)
    \o EncSection(S_NUMS, S_INTE, EncInts(table.nums), <<3>>)
    \o EncSection(S_STARTDAT, S_INTE, EncInts(StartDat), <<Len(StartDat)>>)

LocatorDatasets ==
    [j \in 1..Len(LocatorTables) |->
        Dataset(Flatten(SmspecPiecesOf(LocatorTables[j])), GoodUnsmry, TRUE, "locator")]

(***************************************************************************)
(* The state: the files named by root_name, one SummaryData object (self), *)
(* the list objects its vector() calls create, and the threads that run    *)
(* the constructor (thread 1) and then issue requests.                     *)
(***************************************************************************)
VARIABLES
    root_name,      \* the dataset: an index into Datasets
    files,          \* the two files of the dataset, as they are on disk
    arg_on_demand,  \* the on_demand argument of the constructor
    obj,            \* "new", "building", "ready" (constructed), "failed"
    self,           \* the attributes of the object
    lists,          \* the list objects made by vector(): id -> elements
    pc,             \* per thread: where it is in the operation it runs
    op,             \* per thread: "init", "vector", "read_unsmry"
    fh,             \* per thread: the file handle of its read pass
    loc,            \* per thread: the local variables
    out,            \* per thread: how its last operation ended
    calls,          \* per thread: the requests it has issued
    overlap         \* per thread: another request ran during this one

vars == <<root_name, files, arg_on_demand, obj, self, lists, pc, op, fh, loc, out,
          calls, overlap>>

Threads == 1..NThreads

Bytes(file) ==
    IF file = "SMSPEC" THEN files.smspec ELSE files.unsmry

\* what self.param refers to: nothing yet, a list object, or a DataFrame
NoRef == [kind |-> "unset", id |-> 0, rows |-> <<>>]
ListRef(id) == [kind |-> "list", id |-> id, rows |-> <<>>]
FrameRef(rows) == [kind |-> "frame", id |-> 0, rows |-> rows]

NoSelf ==
    [has |-> {}, intehead_section |-> <<>>, restart_section |-> <<>>,
     dimens_section |-> <<>>, startdat_section |-> <<>>, runtimei_section |-> <<>>,
     runtimed_section |-> <<>>, keywords_section |-> <<>>, wgnames_section |-> <<>>,
     nums_section |-> <<>>, measrmnt_section |-> <<>>, units_section |-> <<>>,
     nlist |-> 0, nx |-> 0, ny |-> 0, nz |-> 0, start_date |-> <<>>,
     well_names |-> <<>>, group_names |-> <<>>, vector_names |-> <<>>,
     on_demand |-> TRUE, seqhdr |-> <<>>, ministep |-> <<>>, params |-> <<>>,
     dfparams |-> <<>>, param |-> NoRef]

SetAttr(s, name, value) == [s EXCEPT ![name] = value, !.has = @ \cup {name}]

NoLoc ==
    [keyword |-> <<>>, identifier |-> <<>>, col |-> 0, sign_mult |-> 1,
     section_name |-> <<>>, num_records |-> 0, record_type |-> <<>>,
     read_index |-> 0, i |-> 0, block_length |-> 0, start |-> 0,
     block |-> <<>>, section_results |-> <<>>, result |-> <<>>,
     append_to |-> NoRef, section_start |-> 0]

NoHandle == [open |-> FALSE, file |-> "SMSPEC", pos |-> 0]
Opened(file) == [open |-> TRUE, file |-> file, pos |-> 0]

NoOut ==
    [status |-> "none", err |-> "", args |-> <<>>, kind |-> "", value |-> <<>>,
     mode |-> "", keyword |-> <<>>, identifier |-> <<>>, col |-> 0, sign_mult |-> 1]
\* an exception left the operation
Raised(t, err, args) ==
    [NoOut EXCEPT !.status = "raised", !.err = err, !.args = args,
                  !.keyword = loc[t].keyword, !.identifier = loc[t].identifier,
                  !.col = loc[t].col, !.sign_mult = loc[t].sign_mult]

\* before SummaryData(root_name, on_demand) is called on the files given
InitOn(name, dataset) ==
    /\ root_name = name
    /\ files = dataset
    /\ arg_on_demand \in BOOLEAN
    /\ obj = "new"
    /\ self = NoSelf
    /\ lists = <<>>
    /\ pc = [t \in Threads |-> "idle"]
    /\ op = [t \in Threads |-> "init"]
    /\ fh = [t \in Threads |-> NoHandle]
    /\ loc = [t \in Threads |-> NoLoc]
    /\ out = [t \in Threads |-> NoOut]
    /\ calls = [t \in Threads |-> 0]
    /\ overlap = [t \in Threads |-> FALSE]

Init == \E name \in 1..Len(Datasets) : InitOn(name, Datasets[name])

\* the datasets of the lookup
LocatorInit ==
    \E name \in 1..Len(LocatorDatasets) : InitOn(name, LocatorDatasets[name])

\* an exception that leaves the file of the read pass open
RaiseLeavingOpen(t, err, args) ==
    /\ pc' = [pc EXCEPT ![t] = "idle"]
    /\ out' = [out EXCEPT ![t] = Raised(t, err, args)]
    /\ obj' = IF op[t] = "init" THEN "failed" ELSE obj
    /\ UNCHANGED <<root_name, files, arg_on_demand, self, lists, op, fh, loc, calls,
                   overlap>>

\* raise err out of the operation thread t runs; the with statement closes
\* the file, and a constructor that raises leaves no object
Raise(t, err, args) ==
    /\ pc' = [pc EXCEPT ![t] = "idle"]
    /\ fh' = [fh EXCEPT ![t].open = FALSE]
    /\ out' = [out EXCEPT ![t] = Raised(t, err, args)]
    /\ obj' = IF op[t] = "init" THEN "failed" ELSE obj
    /\ UNCHANGED <<root_name, files, arg_on_demand, self, lists, op, loc, calls, overlap>>

\* go on to newpc with the handle at newpos and the locals newloc
Goto(t, newpc, newpos, newloc) ==
    /\ pc' = [pc EXCEPT ![t] = newpc]
    /\ fh' = [fh EXCEPT ![t].pos = newpos]
    /\ loc' = [loc EXCEPT ![t] = newloc]

(***************************************************************************)
(* __read_block_header: five reads, then the comparison of the two length  *)
(* markers.  The payload is always read as 8 + 4 + 4 bytes, so the reads   *)
(* start 0, 4, 12, 16 and 20 bytes after the cursor; past the end of the   *)
(* file each returns what is left.                                         *)
(***************************************************************************)
read_block_header(file, pos) ==
    LET a == read_integers(file, pos, 4)
        b == read_strings(file, pos + 4, 8)
        c == read_integers(file, pos + 12, 4)
        d == read_strings_short(file, pos + 16, 4)
        e == read_integers(file, pos + 20, 4)
        none == [err |-> "", args |-> <<>>, pos |-> pos, section_name |-> PyStr(<<>>),
                 num_records |-> PyInt(0), record_type |-> PyStr(<<>>)]
    IN  IF b.err # "" THEN [none EXCEPT !.err = b.err, !.pos = b.pos]
        ELSE IF d.err # "" THEN [none EXCEPT !.err = d.err, !.pos = d.pos]
        ELSE IF a.val[1].v # e.val[1].v
        THEN [none EXCEPT !.err = "FrameMismatch",
                          !.args = <<a.val[1].v, e.val[1].v>>, !.pos = e.pos]
        ELSE [none EXCEPT !.pos = e.pos, !.section_name = b.val[1],
                          !.num_records = c.val[1], !.record_type = d.val[1]]

\* the reader __read_record picks for a record type; "" when it has none
RecordKind(record_type) ==
    CASE record_type = S_INTE -> "integers"
      [] record_type = S_REAL -> "reals"
      [] record_type = S_DOUB -> "doubles"
      [] record_type = S_CHAR -> "strings"
      [] record_type = S_LOGI -> "logis"
      [] OTHER -> ""

\* a section read that counts its elements from 0
EnterRecordFromZero(l, h, read_index) ==
    [l EXCEPT !.section_name = h.section_name.v, !.num_records = h.num_records.v,
              !.record_type = h.record_type.v, !.read_index = read_index,
              !.i = 0, !.block_length = 0, !.start = 0, !.block = <<>>,
              !.section_results = <<>>, !.result = <<>>, !.section_start = h.pos]

\* the if/elif chain over record_type: the reader called, or the exception
ReadAs(record_type, file, pos, count) ==
    IF RecordKind(record_type) = ""
    THEN [err |-> "UnknownRecordType", args |-> record_type, val |-> <<>>, pos |-> pos]
    ELSE [args |-> <<>>] @@ ReadElems(RecordKind(record_type), file, pos, count)

\* the locals of a section read that starts after header h
EnterRecord(l, h, read_index) ==
    [l EXCEPT !.section_name = h.section_name.v, !.num_records = h.num_records.v,
              !.record_type = h.record_type.v, !.read_index = read_index,
              !.i = 1, !.block_length = 0, !.start = 0, !.block = <<>>,
              !.section_results = <<>>, !.result = <<>>, !.section_start = h.pos]

(***************************************************************************)
(* __read_record, one block per two steps: the leading length and the      *)
(* elements, then the trailing length and the bookkeeping.                 *)
(***************************************************************************)
RecordBlock(t) ==
    /\ pc[t] = "rec"
    /\ loc[t].i <= loc[t].num_records
    /\ \E a \in {read_integers(Bytes(fh[t].file), fh[t].pos, 4)} :
       \E b \in {ReadAs(loc[t].record_type, Bytes(fh[t].file), a.pos, a.val[1].v)} :
           IF b.err # "" THEN Raise(t, b.err, b.args)
           ELSE /\ Goto(t, "rec_end", b.pos,
                        [loc[t] EXCEPT !.block_length = a.val[1].v,
                                       !.start = a.pos, !.block = b.val])
                /\ UNCHANGED <<root_name, files, arg_on_demand, obj, self, lists, op, out,
                               calls, overlap>>

RecordEnd(t) ==
    /\ pc[t] = "rec_end"
    /\ \E e \in {read_integers(Bytes(fh[t].file), fh[t].pos, 4)} :
       LET end_block_length == e.val[1].v
       IN  IF loc[t].block_length # end_block_length
           THEN Raise(t, "FrameMismatch", <<loc[t].block_length, end_block_length>>)
           ELSE /\ Goto(t, "rec", e.pos,
                        [loc[t] EXCEPT !.i = @ + Len(loc[t].block),
                                       !.section_results = @ \o loc[t].block])
                /\ UNCHANGED <<root_name, files, arg_on_demand, obj, self, lists, op, out,
                               calls, overlap>>

\* the attribute __read_smspec stores a section in
SectionAttr(section_name) ==
    CASE section_name = S_INTEHEAD -> "intehead_section"
      [] section_name = S_RESTART -> "restart_section"
      [] section_name = S_DIMENS -> "dimens_section"
      [] section_name = S_STARTDAT -> "startdat_section"
      [] section_name = S_RUNTIMEI -> "runtimei_section"
      [] section_name = S_RUNTIMED -> "runtimed_section"
      [] section_name = S_KEYWORDS -> "keywords_section"
      [] section_name = S_WGNAMES -> "wgnames_section"
      [] section_name = S_NUMS -> "nums_section"
      [] section_name = S_MEASRMNT -> "measrmnt_section"
      [] section_name = S_UNITS -> "units_section"

\* the list __read_unsmry appends a section to
SectionList(section_name) ==
    CASE section_name = S_SEQHDR -> "seqhdr"
      [] section_name = S_MINISTEP -> "ministep"
      [] section_name = S_PARAMS -> "params"

\* w.replace(':+:+:+:+', '') on a name of at most eight characters
ReplaceBlank(w) == IF w.v = S_BLANK THEN PyStr(<<>>) ELSE w

\* __read_record returns: the caller stores the section and reads on
RecordReturn(t) ==
    /\ pc[t] = "rec"
    /\ loc[t].i > loc[t].num_records
    /\ LET r == loc[t].section_results
           name == loc[t].section_name
       IN  IF op[t] = "init" /\ name = S_WGNAMES /\ \E k \in 1..Len(r) : r[k].t # "str"
           THEN Raise(t, "AttributeError", <<>>)
           ELSE /\ self' = IF op[t] # "init"
                           THEN [self EXCEPT ![SectionList(name)] = Append(@, r)]
                           ELSE IF name = S_WGNAMES
                           THEN SetAttr(self, "wgnames_section",
                                        [k \in 1..Len(r) |-> ReplaceBlank(r[k])])
                           ELSE SetAttr(self, SectionAttr(name), r)
                /\ pc' = [pc EXCEPT ![t] = "hdr"]
                /\ UNCHANGED <<root_name, files, arg_on_demand, obj, lists, op, fh, loc, out,
                               calls, overlap>>

(***************************************************************************)
(* __init__ up to the first header, and the loop of __read_smspec.         *)
(***************************************************************************)
CtorBegin ==
    /\ obj = "new"
    /\ obj' = "building"
    /\ pc' = [pc EXCEPT ![1] = "hdr"]
    /\ op' = [op EXCEPT ![1] = "init"]
    /\ fh' = [fh EXCEPT ![1] = Opened("SMSPEC")]
    /\ UNCHANGED <<root_name, files, arg_on_demand, self, lists, loc, out, calls, overlap>>

SmspecHeader(t) ==
    /\ pc[t] = "hdr"
    /\ op[t] = "init"
    /\ \E h \in {read_block_header(Bytes(fh[t].file), fh[t].pos)} :
           IF h.err # "" THEN Raise(t, h.err, h.args)
           ELSE IF h.section_name.v \in SmspecNames
           THEN /\ Goto(t, "rec", h.pos, EnterRecord(loc[t], h, 0))
                /\ UNCHANGED <<root_name, files, arg_on_demand, obj, self, lists, op, out,
                               calls, overlap>>
           ELSE IF h.section_name.v = <<>>
           THEN /\ pc' = [pc EXCEPT ![t] = "process"]
                /\ fh' = [fh EXCEPT ![t] = [@ EXCEPT !.open = FALSE, !.pos = h.pos]]
                /\ UNCHANGED <<root_name, files, arg_on_demand, obj, self, lists, op, loc, out,
                               calls, overlap>>
           ELSE Raise(t, "UnexpectedSection", h.section_name.v)

(***************************************************************************)
(* __process_smspec                                                        *)
(***************************************************************************)
\* x in list, by ==
InList(x, list) == \E j \in 1..Len(list) : PyEq(list[j], x)

\* the loop over zip(keywords_section, wgnames_section); 87 is 'W', 71 is 'G'
RECURSIVE NameLoop(_, _, _, _)
NameLoop(kws, wgs, k, acc) ==
    IF k > Min(Len(kws), Len(wgs)) \/ acc.err # "" THEN acc
    ELSE LET keyword == kws[k]
             wgname == wgs[k]
             first == IF keyword.t = "str" THEN keyword.v[1] ELSE 0
             a1 == IF first = 87 /\ ~InList(wgname, acc.well_names)
                   THEN [acc EXCEPT !.well_names = Append(@, wgname)]
                   ELSE IF first = 71 /\ ~InList(wgname, acc.group_names)
                   THEN [acc EXCEPT !.group_names = Append(@, wgname)]
                   ELSE acc
             a2 == IF ~InList(keyword, a1.vector_names)
                   THEN [a1 EXCEPT !.vector_names = Append(@, keyword)]
                   ELSE a1
         IN  IF keyword.t \notin {"str", "tuple"} THEN [acc EXCEPT !.err = "TypeError"]
             ELSE IF keyword.v = <<>> THEN [acc EXCEPT !.err = "IndexError"]
             ELSE NameLoop(kws, wgs, k + 1, a2)

\* a filter that lets every name through
KeepsEveryName(x) == TRUE

NotEmpty(x) == ~PyEq(x, PyStr(<<>>))

DaysIn(month, year) ==
    IF month \in {4, 6, 9, 11} THEN 30
    ELSE IF month # 2 THEN 31
    ELSE IF year % 4 = 0 /\ (year % 100 # 0 \/ year % 400 = 0) THEN 29 ELSE 28

\* datetime.datetime(day=, month=, year=, hour=, minute=, second=, microsecond=)
DateErr(d) ==
    IF \E k \in 1..6 : d[k].t # "int" THEN "TypeError"
    ELSE IF /\ d[3].v \in 1..9999 /\ d[2].v \in 1..12
            /\ d[1].v \in 1..DaysIn(d[2].v, d[3].v)
            /\ d[4].v \in 0..23 /\ d[5].v \in 0..59
            /\ d[6].v \div 1000000 \in 0..59
         THEN "" ELSE "ValueError"

process_smspec(s) ==
    LET d == s.startdat_section
        names == NameLoop(s.keywords_section, s.wgnames_section, 1,
                          [err |-> "", well_names |-> <<>>, group_names |-> <<>>,
                           vector_names |-> <<>>])
        failed(e) == [err |-> e, self |-> s]
    IN  IF "dimens_section" \notin s.has THEN failed("AttributeError")
        ELSE IF Len(s.dimens_section) < 4 THEN failed("IndexError")
        ELSE IF "startdat_section" \notin s.has THEN failed("AttributeError")
        ELSE IF Len(d) < 6 THEN failed("IndexError")
        ELSE IF DateErr(d) # "" THEN failed(DateErr(d))
        ELSE IF ~({"keywords_section", "wgnames_section"} \subseteq s.has)
        THEN failed("AttributeError")
        ELSE IF names.err # "" THEN failed(names.err)
        ELSE [err |-> "",
              self |-> [s EXCEPT
                  !.has = @ \cup {"nlist", "nx", "ny", "nz", "start_date", "well_names",
                                  "group_names", "vector_names"},
                  !.nlist = s.dimens_section[1].v, !.nx = s.dimens_section[2].v,
                  !.ny = s.dimens_section[3].v, !.nz = s.dimens_section[4].v,
                  !.start_date = <<d[3].v, d[2].v, d[1].v, d[4].v, d[5].v,
                                   d[6].v \div 1000000, d[6].v % 1000000>>,
                  !.well_names = SelectSeq(names.well_names, NotEmpty),
                  !.group_names = SelectSeq(names.group_names, NotEmpty),
                  !.vector_names = SelectSeq(names.vector_names, NotEmpty)]]

ProcessSmspec(t) ==
    /\ pc[t] = "process"
    /\ \E r \in {process_smspec(self)} :
           IF r.err # "" THEN Raise(t, r.err, <<>>)
           ELSE /\ self' = r.self
                /\ pc' = [pc EXCEPT ![t] = "flag"]
                /\ UNCHANGED <<root_name, files, arg_on_demand, obj, lists, op, fh, loc, out,
                               calls, overlap>>

(***************************************************************************)
(* The end of __init__: the flag is stored; with on_demand False the       *)
(* constructor calls self.____read_unsmry.  Inside the class that name is  *)
(* mangled to _SummaryData____read_unsmry, while the method __read_unsmry  *)
(* is _SummaryData__read_unsmry: the attribute does not exist.             *)
(***************************************************************************)
CtorFlag(t) ==
    /\ pc[t] = "flag"
    /\ self' = SetAttr(self, "on_demand", arg_on_demand)
    /\ pc' = [pc EXCEPT ![t] = "idle"]
    /\ obj' = IF arg_on_demand THEN "ready" ELSE "failed"
    /\ out' = [out EXCEPT ![t] =
                  IF arg_on_demand THEN [NoOut EXCEPT !.status = "returned"]
                  ELSE Raised(t, "AttributeError", <<>>)]
    /\ UNCHANGED <<root_name, files, arg_on_demand, lists, op, fh, loc, calls, overlap>>

(***************************************************************************)
(* vector(): the lookup of the column.                                     *)
(***************************************************************************)
special_keywords ==
    {
      <<84, 73, 77, 69>>,   \* TIME
      <<89, 69, 65, 82, 83>>,   \* YEARS
      <<68, 65, 89>>,   \* DAY
      <<77, 79, 78, 84, 72>>,   \* MONTH
      <<89, 69, 65, 82>>,   \* YEAR
      <<69, 76, 65, 80, 83, 69, 68>>,   \* ELAPSED
      <<77, 65, 88, 68, 80, 82>>,   \* MAXDPR
      <<77, 65, 88, 68, 83, 79>>,   \* MAXDSO
      <<77, 65, 88, 68, 83, 71>>,   \* MAXDSG
      <<77, 65, 88, 68, 83, 87>>,   \* MAXDSW
      <<78, 69, 87, 84, 79, 78>>,   \* NEWTON
      <<78, 76, 73, 78, 69, 65, 82, 83>>,   \* NLINEARS
      <<83, 84, 69, 80, 84, 89, 80, 69>>,   \* STEPTYPE
      <<84, 67, 80, 85>>,   \* TCPU
      <<84, 67, 80, 85, 84, 83>>,   \* TCPUTS
      <<84, 67, 80, 85, 68, 65, 89>>,   \* TCPUDAY
      <<84, 69, 76, 65, 80, 84, 83>>,   \* TELAPTS
      <<84, 69, 76, 65, 80, 68, 65, 89>>,   \* TELAPDAY
      <<84, 73, 77, 69, 83, 84, 69, 80>>    \* TIMESTEP
    }

\* identifier.split(): the maximal runs of non-space characters
RECURSIVE SplitLoop(_, _, _)
SplitLoop(s, cur, acc) ==
    IF s = <<>> THEN (IF cur = <<>> THEN acc ELSE Append(acc, cur))
    ELSE IF IsSpace(Head(s))
    THEN SplitLoop(Tail(s), <<>>, IF cur = <<>> THEN acc ELSE Append(acc, cur))
    ELSE SplitLoop(Tail(s), Append(cur, Head(s)), acc)
Split(s) == SplitLoop(s, <<>>, <<>>)

\* int(token): an optional sign, then decimal digits
IsDigits(s) == s # <<>> /\ \A k \in 1..Len(s) : s[k] \in 48..57
RECURSIVE DigitsValue(_)
DigitsValue(s) ==
    IF s = <<>> THEN 0
    ELSE 10 * DigitsValue(SubSeq(s, 1, Len(s) - 1)) + (s[Len(s)] - 48)
IntOk(tok) ==
    IF tok # <<>> /\ tok[1] \in {43, 45} THEN IsDigits(Tail(tok)) ELSE IsDigits(tok)
IntOf(tok) ==
    IF tok[1] = 45 THEN 0 - DigitsValue(Tail(tok))
    ELSE IF tok[1] = 43 THEN DigitsValue(Tail(tok))
    ELSE DigitsValue(tok)

\* list(zip(cols...)).index(key): the first 0-based position at which every
\* column equals its key; -1 when .index raises ValueError
RECURSIVE MinLen(_)
MinLen(cols) ==
    IF Len(cols) = 1 THEN Len(cols[1]) ELSE Min(Len(cols[1]), MinLen(Tail(cols)))
Matches(cols, key, j) == \A c \in 1..Len(cols) : PyEq(cols[c][j], key[c])
ZipIndex(cols, key) ==
    IF \E j \in 1..MinLen(cols) : Matches(cols, key, j)
    THEN (CHOOSE j \in 1..MinLen(cols) :
              /\ Matches(cols, key, j)
              /\ \A m \in 1..(j - 1) : ~Matches(cols, key, m)) - 1
    ELSE -1

\* a region pair packed with the second region in the low bits
CombinedLowHigh(a, b) == b + (32768 * (a + 10))

\* combined_region_number_1 of (region_num1, region_num2); _2 swaps them
combined_region_number(a, b) == a + (32768 * (b + 10))

\* the if/elif chain of vector(): the column (0-based) and the sign, or the
\* exception.  Character codes: A 65, B 66, C 67, E 69, F 70, G 71, L 76,
\* M 77, N 78, P 80, R 82, S 83, W 87.
Resolve(keyword, identifier, s) ==
    LET K == PyStr(keyword)
        ID == PyStr(identifier)
        toks == Split(identifier)
        fail(e) == [err |-> e, col |-> 0, sign_mult |-> 1]
        found(ix, sign) ==
            IF ix < 0 THEN fail("ValueError")
            ELSE [err |-> "", col |-> ix, sign_mult |-> sign]
        kw == <<s.keywords_section>>
        kw_wg == <<s.keywords_section, s.wgnames_section>>
        kw_num == <<s.keywords_section, s.nums_section>>
        kw_wg_num == <<s.keywords_section, s.wgnames_section, s.nums_section>>
        hasnum == "nums_section" \in s.has
        byName == found(ZipIndex(kw_wg, <<K, ID>>), 1)
        c1 == combined_region_number(IntOf(toks[1]), IntOf(toks[2]))
        c2 == combined_region_number(IntOf(toks[2]), IntOf(toks[1]))
        first == IF hasnum THEN ZipIndex(kw_num, <<K, PyInt(c1)>>) ELSE -1
        second == IF hasnum THEN ZipIndex(kw_num, <<K, PyInt(c2)>>) ELSE -1
    IN  IF keyword \in special_keywords THEN found(ZipIndex(kw, <<K>>), 1)
        ELSE IF keyword = <<>> THEN fail("IndexError")
        ELSE IF keyword[1] = 65
        THEN IF hasnum THEN found(ZipIndex(kw_num, <<K, ID>>), 1)
             ELSE fail("AttributeError")
        ELSE IF keyword[1] = 66
        THEN IF Len(toks) # 3 \/ \E k \in 1..3 : ~IntOk(toks[k]) THEN fail("ValueError")
             ELSE IF ~hasnum THEN fail("AttributeError")
             ELSE found(ZipIndex(kw_num,
                     <<K, PyInt((IntOf(toks[3]) - 1) * s.nx * s.ny
                                + (IntOf(toks[2]) - 1) * s.nx + IntOf(toks[1]))>>), 1)
        ELSE IF keyword[1] = 67
        THEN IF Len(toks) # 2 THEN fail("ValueError")
             ELSE IF ~hasnum THEN fail("AttributeError")
             ELSE IF ~IntOk(toks[2]) THEN fail("ValueError")
             ELSE found(ZipIndex(kw_wg_num,
                                 <<K, PyStr(toks[1]), PyInt(IntOf(toks[2]))>>), 1)
        ELSE IF keyword[1] \in {69, 70} THEN found(ZipIndex(kw, <<K>>), 1)
        ELSE IF keyword[1] = 71 THEN byName
        ELSE IF SubSeq(keyword, 1, 2) \in {<<76, 66>>, <<76, 67>>, <<76, 87>>}
        THEN fail("UnsupportedKeyword")
        ELSE IF keyword[1] \in {78, 80} THEN byName
        ELSE IF keyword[1] = 82 /\ Len(keyword) < 3 THEN fail("IndexError")
        ELSE IF keyword[1] = 82 /\ keyword[3] = 70
        THEN IF Len(toks) # 2 \/ \E k \in 1..2 : ~IntOk(toks[k]) THEN fail("ValueError")
             ELSE IF first >= 0 THEN found(first, 1)
             ELSE IF second >= 0 THEN found(second, -1)
             ELSE fail("NoResult")
        ELSE IF SubSeq(keyword, 1, 2) = <<82, 67>> /\ Len(keyword) < 4
        THEN fail("IndexError")
        ELSE IF SubSeq(keyword, 1, 2) = <<82, 67>> /\ keyword[4] = 77
        THEN IF Len(toks) # 2 \/ \E k \in 1..2 : ~IntOk(toks[k]) THEN fail("ValueError")
             ELSE IF ~hasnum THEN fail("AttributeError")
             \* well_name is read before any assignment to it
             ELSE fail("UnboundLocalError")
        ELSE IF keyword[1] = 82 THEN byName
        ELSE IF keyword[1] = 83
        THEN IF Len(toks) # 2 THEN fail("ValueError")
             ELSE IF ~hasnum THEN fail("AttributeError")
             \* segment_number is compared as the string it was split into
             ELSE found(ZipIndex(kw_wg_num, <<K, PyStr(toks[1]), PyStr(toks[2])>>), 1)
        ELSE IF keyword[1] = 87 THEN byName
        ELSE fail("UnexpectedKeyword")

(***************************************************************************)
(* pandas, as far as vector() uses it: a DataFrame made of a list of rows, *)
(* a column of it, and the column times the sign.                          *)
(***************************************************************************)
PyNaN == PyReal(<<>>)

\* v * sign for one cell
Mul(v, sign) ==
    CASE v.t = "int" -> PyInt(v.v * sign)
      [] v.t = "bool" -> PyInt((IF v.v THEN 1 ELSE 0) * sign)
      [] v.t = "float" /\ sign = -1 /\ v.v # <<>> ->
            PyReal([v.v EXCEPT ![1] = (@ + 128) % 256])
      [] v.t \in {"str", "tuple"} /\ sign = -1 -> [v EXCEPT !.v = <<>>]
      [] OTHER -> v

\* frame[c] raises KeyError when no row reaches column c
HasColumn(rows, c) == \E k \in 1..Len(rows) : c < Len(rows[k])
Column(rows, c) ==
    [k \in 1..Len(rows) |-> IF c < Len(rows[k]) THEN rows[k][c + 1] ELSE PyNaN]
Scaled(column, sign) == [k \in 1..Len(column) |-> Mul(column[k], sign)]

Returned(t, mode, kind, value) ==
    [NoOut EXCEPT !.status = "returned", !.mode = mode, !.kind = kind,
                  !.value = value, !.keyword = loc[t].keyword,
                  !.identifier = loc[t].identifier, !.col = loc[t].col,
                  !.sign_mult = loc[t].sign_mult]

(***************************************************************************)
(* The requests the threads issue.                                         *)
(***************************************************************************)
LocatorRequests ==
    { <<K_RWFT, I_1_2>>, <<K_RWFT, I_2_1>>, <<K_RWFT, I_3_7>>, <<K_RCOM, I_1_2>>,
      <<K_COFR, I_P1_3>>, <<K_COFR, I_P1_4>>, <<K_SOFR, I_P1_3>> }

Requests ==
    IF files.why = "locator" THEN LocatorRequests
    ELSE { <<K_TIME, <<>>>>, <<K_WOPR, N_P1>>, <<K_RWFT, I_1_2>>, <<K_WOPR, N_P2>>,
           <<K_LBXX, <<>>>> }

Running(u) == pc[u] # "idle"

\* a request that opens the data file whatever the lookup gave
ScansUnresolved(err, on_demand) == on_demand

\* the request goes on to scan the data file: the lookup raised nothing and
\* the flag says on demand
ScansDataFile(err, on_demand) == err = "" /\ on_demand

\* vector(keyword, identifier) up to the first header: the lookup, then
\* either the column of dfparams, or the file opened and self.param = list().
\* Requests run in parallel on the well-formed datasets.
VectorCall(t) ==
    /\ obj = "ready"
    /\ pc[t] = "idle"
    /\ calls[t] < MaxCalls
    /\ t = 1 \/ files.wf
    /\ \A u \in Threads : Running(u) => op[u] = "vector"
    /\ \E req \in Requests : \E r \in {Resolve(req[1], req[2], self)} :
         LET l == [NoLoc EXCEPT !.keyword = req[1], !.identifier = req[2],
                                !.col = r.col, !.sign_mult = r.sign_mult]
             failed(e) == [Raised(t, e, <<>>) EXCEPT !.keyword = req[1],
                                                     !.identifier = req[2],
                                                     !.col = r.col,
                                                     !.sign_mult = r.sign_mult]
             eager == ~self.on_demand
         IN  /\ loc' = [loc EXCEPT ![t] = l]
             /\ op' = [op EXCEPT ![t] = "vector"]
             /\ calls' = [calls EXCEPT ![t] = @ + 1]
             /\ pc' = [pc EXCEPT ![t] = IF ScansDataFile(r.err, ~eager) THEN "hdr"
                                        ELSE "idle"]
             /\ fh' = [fh EXCEPT ![t] =
                          IF ScansDataFile(r.err, ~eager) THEN Opened("UNSMRY") ELSE @]
             /\ lists' = IF ScansDataFile(r.err, ~eager) THEN Append(lists, <<>>)
                         ELSE lists
             /\ self' = IF ScansDataFile(r.err, ~eager)
                        THEN [self EXCEPT !.param = ListRef(Len(lists) + 1)]
                        ELSE self
             /\ out' = [out EXCEPT ![t] =
                          IF r.err # "" THEN failed(r.err)
                          ELSE IF ~eager THEN NoOut
                          ELSE IF ~HasColumn(self.dfparams, r.col)
                          THEN failed("KeyError")
                          ELSE [NoOut EXCEPT
                                  !.status = "returned", !.mode = "eager",
                                  !.kind = "series",
                                  !.value = Scaled(Column(self.dfparams, r.col),
                                                   r.sign_mult),
                                  !.keyword = req[1], !.identifier = req[2],
                                  !.col = r.col, !.sign_mult = r.sign_mult]]
             /\ overlap' = [u \in Threads |->
                              IF u = t THEN \E w \in Threads \ {t} : Running(w)
                              ELSE overlap[u] \/ Running(u)]
    /\ UNCHANGED <<root_name, files, arg_on_demand, obj>>

(***************************************************************************)
(* The on-demand loop of vector(): one header, then the section read by    *)
(* __read_record_on_demand.                                                *)
(***************************************************************************)
\* DataFrame.append exists up to pandas 1.x and is gone from pandas 2.0
PandasBuilds == {"append", "no_append"}

VectorHeader(t) ==
    /\ pc[t] = "hdr"
    /\ op[t] = "vector"
    /\ \E h \in {read_block_header(Bytes(fh[t].file), fh[t].pos)} :
       LET name == h.section_name.v
       IN  IF h.err # "" THEN Raise(t, h.err, h.args)
           ELSE IF name \in {S_SEQHDR, S_MINISTEP}
           THEN /\ Goto(t, "od", h.pos, EnterRecord(loc[t], h, 9999))
                /\ UNCHANGED <<root_name, files, arg_on_demand, obj, self, lists, op, out,
                               calls, overlap>>
           ELSE IF name = S_PARAMS
           THEN \* self.param.append is looked up before the section is read
                \E build \in IF self.param.kind = "frame" THEN PandasBuilds
                             ELSE {"append"} :
                  IF build = "no_append" THEN Raise(t, "AttributeError", <<>>)
                  ELSE /\ Goto(t, "od", h.pos,
                               [EnterRecord(loc[t], h, loc[t].col)
                                  EXCEPT !.append_to = self.param])
                       /\ UNCHANGED <<root_name, files, arg_on_demand, obj, self, lists, op,
                                      out, calls, overlap>>
           ELSE IF name = <<>>
           THEN /\ pc' = [pc EXCEPT ![t] = "frame"]
                /\ fh' = [fh EXCEPT ![t] = [@ EXCEPT !.open = FALSE, !.pos = h.pos]]
                /\ UNCHANGED <<root_name, files, arg_on_demand, obj, self, lists, op, loc, out,
                               calls, overlap>>
           ELSE Raise(t, "UnexpectedSection", name)

type_length(record_type) == IF record_type \in {S_DOUB, S_CHAR} THEN 8 ELSE 4

\* a skip test that forgets where the block starts
SkipsBlockNoOffset(target, i, block_length, width) ==
    target > block_length \div width \/ target < i

\* the test that sends __read_record_on_demand past a block
SkipsBlock(target, i, block_length, width) ==
    target > (i + block_length \div width) \/ target < i

OnDemandBlock(t) ==
    /\ pc[t] = "od"
    /\ loc[t].i <= loc[t].num_records
    /\ \E a \in {read_integers(Bytes(fh[t].file), fh[t].pos, 4)} :
       \E r \in {ReadAs(loc[t].record_type, Bytes(fh[t].file),
                         a.pos + (loc[t].read_index + 1 - loc[t].i)
                                    * type_length(loc[t].record_type),
                         KindLength(RecordKind(loc[t].record_type)))} :
       LET block_length == a.val[1].v
           width == type_length(loc[t].record_type)
           target == loc[t].read_index + 1
           skip_num == (target - loc[t].i) * width
           back == r.pos + (block_length - skip_num - width)
           l == [loc[t] EXCEPT !.block_length = block_length, !.start = a.pos]
           rest == <<root_name, files, arg_on_demand, obj, self, lists, op, out, calls,
                     overlap>>
       IN  IF SkipsBlock(target, loc[t].i, block_length, width)
           THEN Goto(t, "od_end", a.pos + block_length, l) /\ UNCHANGED rest
           ELSE IF r.err # "" THEN Raise(t, r.err, r.args)
           ELSE IF back < 0 THEN Raise(t, "OSError", <<>>)
           ELSE Goto(t, "od_end", back, [l EXCEPT !.result = r.val])
                /\ UNCHANGED rest

OnDemandEnd(t) ==
    /\ pc[t] = "od_end"
    /\ \E e \in {read_integers(Bytes(fh[t].file), fh[t].pos, 4)} :
       LET end_block_length == e.val[1].v
           width == type_length(loc[t].record_type)
       IN  IF loc[t].block_length # end_block_length
           THEN Raise(t, "FrameMismatch", <<loc[t].block_length, end_block_length>>)
           ELSE /\ Goto(t, "od", e.pos,
                        [loc[t] EXCEPT !.i = @ + loc[t].block_length \div width])
                /\ UNCHANGED <<root_name, files, arg_on_demand, obj, self, lists, op, out,
                               calls, overlap>>

\* __read_record_on_demand returns; vector() appends the result of a PARAMS
\* section to the object self.param was when the section began.  A list
\* takes it; a DataFrame returns a new frame, which is dropped.
OnDemandReturn(t) ==
    /\ pc[t] = "od"
    /\ loc[t].i > loc[t].num_records
    /\ lists' = IF loc[t].section_name = S_PARAMS /\ loc[t].append_to.kind = "list"
                THEN [lists EXCEPT ![loc[t].append_to.id] = Append(@, loc[t].result)]
                ELSE lists
    /\ pc' = [pc EXCEPT ![t] = "hdr"]
    /\ UNCHANGED <<root_name, files, arg_on_demand, obj, self, op, fh, loc, out, calls,
                   overlap>>

\* self.param = pd.DataFrame(self.param)
VectorFrame(t) ==
    /\ pc[t] = "frame"
    /\ self' = [self EXCEPT !.param =
                  IF @.kind = "list" THEN FrameRef(lists[@.id]) ELSE FrameRef(@.rows)]
    /\ pc' = [pc EXCEPT ![t] = "ret"]
    /\ UNCHANGED <<root_name, files, arg_on_demand, obj, lists, op, fh, loc, out, calls,
                   overlap>>

\* return self.param[0] * sign_mult, of whatever self.param is by now
VectorReturn(t) ==
    /\ pc[t] = "ret"
    /\ LET p == self.param
           sign == loc[t].sign_mult
       IN  out' = [out EXCEPT ![t] =
              IF p.kind = "frame"
              THEN IF HasColumn(p.rows, 0)
                   THEN Returned(t, "on_demand", "series", Scaled(Column(p.rows, 0), sign))
                   ELSE Raised(t, "KeyError", <<>>)
              ELSE IF lists[p.id] = <<>> THEN Raised(t, "IndexError", <<>>)
              ELSE Returned(t, "on_demand", "list",
                            IF sign = 1 THEN lists[p.id][1] ELSE <<>>)]
    /\ pc' = [pc EXCEPT ![t] = "idle"]
    /\ UNCHANGED <<root_name, files, arg_on_demand, obj, self, lists, op, fh, loc, calls,
                   overlap>>

(***************************************************************************)
(* __read_unsmry, the full load.  No path of the class reaches it (see     *)
(* CtorFlag); it runs here as the call __init__ was written to make, on an *)
(* object that is otherwise at rest.                                       *)
(***************************************************************************)
ReadUnsmryCall(t) ==
    /\ obj = "ready"
    /\ t = 1
    /\ self.on_demand
    /\ "seqhdr" \notin self.has
    /\ \A u \in Threads : ~Running(u)
    /\ self' = SetAttr(SetAttr(SetAttr(self, "seqhdr", <<>>), "ministep", <<>>),
                       "params", <<>>)
    /\ pc' = [pc EXCEPT ![t] = "hdr"]
    /\ op' = [op EXCEPT ![t] = "read_unsmry"]
    /\ fh' = [fh EXCEPT ![t] = Opened("UNSMRY")]
    /\ loc' = [loc EXCEPT ![t] = NoLoc]
    /\ out' = [out EXCEPT ![t] = NoOut]
    /\ UNCHANGED <<root_name, files, arg_on_demand, obj, lists, calls, overlap>>

UnsmryHeader(t) ==
    /\ pc[t] = "hdr"
    /\ op[t] = "read_unsmry"
    /\ \E h \in {read_block_header(Bytes(fh[t].file), fh[t].pos)} :
           IF h.err # "" THEN Raise(t, h.err, h.args)
           ELSE IF h.section_name.v \in UnsmryNames
           THEN /\ Goto(t, "rec", h.pos, EnterRecord(loc[t], h, 0))
                /\ UNCHANGED <<root_name, files, arg_on_demand, obj, self, lists, op, out,
                               calls, overlap>>
           ELSE IF h.section_name.v = <<>>
           THEN /\ pc' = [pc EXCEPT ![t] = "dfparams"]
                /\ fh' = [fh EXCEPT ![t] = [@ EXCEPT !.open = FALSE, !.pos = h.pos]]
                /\ UNCHANGED <<root_name, files, arg_on_demand, obj, self, lists, op, loc, out,
                               calls, overlap>>
           ELSE Raise(t, "UnexpectedSection", h.section_name.v)

\* self.dfparams = pd.DataFrame(self.params); self.__on_demand = False
ReadUnsmryFinish(t) ==
    /\ pc[t] = "dfparams"
    /\ self' = [SetAttr(self, "dfparams", self.params) EXCEPT !.on_demand = FALSE]
    /\ pc' = [pc EXCEPT ![t] = "idle"]
    /\ out' = [out EXCEPT ![t] = [NoOut EXCEPT !.status = "returned", !.mode = "load"]]
    /\ UNCHANGED <<root_name, files, arg_on_demand, obj, lists, op, fh, loc, calls, overlap>>

(***************************************************************************)
(* The program                                                             *)
(***************************************************************************)
Next ==
    \/ CtorBegin
    \/ \E t \in Threads :
          \/ SmspecHeader(t)
          \/ RecordBlock(t)
          \/ RecordEnd(t)
          \/ RecordReturn(t)
          \/ ProcessSmspec(t)
          \/ CtorFlag(t)
          \/ VectorCall(t)
          \/ VectorHeader(t)
          \/ OnDemandBlock(t)
          \/ OnDemandEnd(t)
          \/ OnDemandReturn(t)
          \/ VectorFrame(t)
          \/ VectorReturn(t)
          \/ ReadUnsmryCall(t)
          \/ UnsmryHeader(t)
          \/ ReadUnsmryFinish(t)

Spec == Init /\ [][Next]_vars

\* the same program on the datasets of the lookup
LocatorSpec == LocatorInit /\ [][Next]_vars

\* every thread that can take a step eventually takes one
FairSpec == Spec /\ WF_vars(Next)

(***************************************************************************)
(* What a well-formed dataset holds, section by section, as the values the *)
(* decoders yield for it.                                                  *)
(***************************************************************************)
Ints(ns) == [k \in 1..Len(ns) |-> PyInt(ns[k])]
Strs(ss) == [k \in 1..Len(ss) |-> PyStr(ss[k])]
\* report step k, all columns
TableRow(k) == [c \in 1..Len(Keywords) |-> PyReal(RealBytes(k, c - 1))]
Table == [k \in 1..MaxSteps |-> TableRow(k)]
\* column c (0-based) of every report step, times the sign
Expected(c, sign) == [k \in 1..MaxSteps |-> Mul(PyReal(RealBytes(k, c)), sign)]

\* the elements of the section named name; k is the report step
ContentOf(name, k) ==
    CASE name = S_DIMENS -> Ints(Dimens)
      [] name = S_KEYWORDS -> Strs(Keywords)
      [] name = S_WGNAMES -> Strs(Wgnames)
      [] name = S_NUMS -> Ints(Nums)
      [] name = S_STARTDAT -> Ints(StartDat)
      [] name = S_RUNTIMED -> <<PyDoub(<<0, 0, 0, 0, 0, 0, 240, 63>>)>>
      [] name = S_SEQHDR -> Ints(<<7>>)
      [] name = S_MINISTEP -> Ints(<<k - 1>>)
      [] name = S_PARAMS -> TableRow(k)

\* thread t has an answer to a vector() request whose lookup succeeds
Answered(t) ==
    /\ op[t] = "vector"
    /\ pc[t] = "idle"
    /\ out[t].status # "none"
    /\ Resolve(out[t].keyword, out[t].identifier, self).err = ""

\* the answer is the column of the file, times the sign
ColumnReturned(t) ==
    /\ out[t].status = "returned"
    /\ out[t].kind = "series"
    /\ out[t].value = Expected(out[t].col, out[t].sign_mult)

CtorDone == obj \in {"ready", "failed"}

(***************************************************************************)
(* Properties                                                              *)
(***************************************************************************)
\* C1: for a well-formed dataset and every request that resolves, the
\* dataset opened with on_demand False answers vector() with the same
\* ordered values, sign included, as the dataset opened on demand.
C1_EagerEqualsOnDemand ==
    (files.wf /\ ~arg_on_demand /\ CtorDone) =>
        \A req \in Requests :
            LET r == Resolve(req[1], req[2], self)
            IN  r.err = "" =>
                  /\ obj = "ready"
                  /\ HasColumn(self.dfparams, r.col)
                  /\ Scaled(Column(self.dfparams, r.col), r.sign_mult)
                        = Expected(r.col, r.sign_mult)

\* C2: on-demand requests that run at the same time on one object each
\* return what they return when run alone, under every interleaving.
C2_ConcurrentRequestsIndependent ==
    \A t \in Threads :
        (files.wf /\ Answered(t) /\ overlap[t]) => ColumnReturned(t)

\* C3: opening a well-formed dataset with on_demand False completes
\* without error and leaves the table with one row per PARAMS section, in
\* file order, each row the full decode of its section.
C3_EagerOpenBuildsTable ==
    (files.wf /\ ~arg_on_demand /\ CtorDone) =>
        (obj = "ready" /\ "dfparams" \in self.has /\ self.dfparams = Table)

\* C4: on demand, a request that resolves to column c with sign s over a
\* well-formed file, run alone, returns one value per PARAMS section in file
\* order, the k-th being s times element c of the k-th PARAMS section.
C4_OnDemandReturnsColumn ==
    \A t \in Threads :
        (files.wf /\ Answered(t) /\ ~overlap[t] /\ out[t].mode # "eager")
            => ColumnReturned(t)

C4_Witness ==
    \E t \in Threads :
        /\ Answered(t) /\ ~overlap[t] /\ ColumnReturned(t)
        /\ out[t].mode = "on_demand" /\ out[t].col = 2 /\ out[t].sign_mult = -1
        /\ files.unsmry = Flatten(UnsmryPieces(Len(Keywords), <<1, 2>>))

\* thread t has gone past a block: its payload starts at loc[t].start
PastBlock(t) == pc[t] \in {"rec", "od"} /\ loc[t].start > 0
\* thread t has gone past a header and not yet read a block
PastHeader(t) == pc[t] \in {"rec", "od"} /\ loc[t].start = 0 /\ fh[t].pos >= 24
\* the length marker the format puts after a payload of length bytes; the
\* block is whole when the file holds that marker in full
WholeBlock(file, start, length) == start + length + 4 <= Len(file)
TrailingLength(file, start, length) == IntFromBytes(FRead(file, start + length, 4))
LeadingLength(file, start) == IntFromBytes(FRead(file, start - 4, 4))

\* C5: in the header reader, the full reader and the sparse reader, a block
\* whose trailing length differs from its leading length makes the read fail
\* with a frame mismatch carrying both lengths; no reader goes past it.
C5_FrameMismatchAlwaysFails ==
    \A t \in Threads :
        LET file == Bytes(fh[t].file)
            hdr == fh[t].pos - 20
        IN  /\ (PastBlock(t) /\ WholeBlock(file, loc[t].start, loc[t].block_length))
                 => TrailingLength(file, loc[t].start, loc[t].block_length)
                       = loc[t].block_length
            /\ (PastHeader(t) /\ WholeBlock(file, hdr, LeadingLength(file, hdr)))
                 => TrailingLength(file, hdr, LeadingLength(file, hdr))
                       = LeadingLength(file, hdr)
            /\ (out[t].status = "raised" /\ out[t].err = "FrameMismatch")
                 => (Len(out[t].args) = 2 /\ out[t].args[1] # out[t].args[2])

\* C6: every read pass over a finite file terminates: it completes or it
\* fails with an error.
C6_EveryReadPassTerminates ==
    \A t \in Threads : Running(t) ~> ~Running(t)

\* thread t is about to read a 4-byte length or the first field of a header
ReadsInteger(t) ==
    \/ pc[t] \in {"hdr", "rec_end", "od_end"}
    \/ pc[t] \in {"rec", "od"} /\ loc[t].i <= loc[t].num_records
Remaining(t) == Len(Bytes(fh[t].file)) - fh[t].pos
\* the errors of the program that report missing bytes
TruncatedInput == {"struct.error"}

\* C7: a primitive decode with fewer bytes left in the file than the field
\* needs fails with a truncated-input error; a length or header field at or
\* near the end of the file is never decoded as zero or as a shorter value.
C7_TruncatedDecodeFails ==
    [][\A t \in Threads :
          (ReadsInteger(t) /\ Remaining(t) < 4 /\ pc'[t] # pc[t])
              => (out'[t].status = "raised" /\ out'[t].err \in TruncatedInput)]_vars

\* the header at the cursor of thread t is whole and its name is blank
BlankHeaderAhead(t) ==
    /\ pc[t] = "hdr"
    /\ Remaining(t) >= 24
    /\ Strip(FRead(Bytes(fh[t].file), fh[t].pos + 4, 8)) = <<>>
LoopEnded == {"process", "frame", "dfparams"}

\* C8: in each section loop a header with an empty name ends the loop
\* without error, whatever its two length markers are, and the loop ends
\* without error on an empty name only.
C8_EmptyNameEndsLoop ==
    [][\A t \in Threads :
          /\ (BlankHeaderAhead(t) /\ pc'[t] # pc[t]) => pc'[t] \in LoopEnded
          /\ (pc[t] = "hdr" /\ pc'[t] \in LoopEnded)
               => read_block_header(Bytes(fh[t].file), fh[t].pos).section_name.v = <<>>
      ]_vars

\* C9: the sparse reader returns an empty result for every target index
\* below 0 or at or above the declared count.
C9_SparseOutOfRangeIsEmpty ==
    \A t \in Threads :
        (/\ pc[t] = "od"
         /\ loc[t].i > loc[t].num_records
         /\ (loc[t].read_index < 0 \/ loc[t].read_index >= loc[t].num_records))
            => loc[t].result = <<>>

\* the file thread t reads is well formed; a block of no bytes inside a
\* section is one more way to split it
WellSplit(t) ==
    IF fh[t].file = "SMSPEC" THEN files.smspec = GoodSmspec
    ELSE files.wf \/ files.why = "zeroblock"

\* C10: the full reader returns exactly declared_count elements, in the
\* order they have across the blocks of the section, for any split.
C10_FullReadReturnsDeclared ==
    \A t \in Threads :
        (pc[t] = "rec" /\ loc[t].i > loc[t].num_records /\ WellSplit(t)) =>
            /\ Len(loc[t].section_results) = loc[t].num_records
            /\ loc[t].section_results
                  = ContentOf(loc[t].section_name, Len(self.params) + 1)

C10_Witness ==
    /\ pc[1] = "rec" /\ loc[1].i > loc[1].num_records
    /\ op[1] = "read_unsmry" /\ loc[1].section_name = S_PARAMS
    /\ Len(self.params) = MaxSteps - 1
    /\ Len(loc[1].section_results) = Len(Keywords)
    /\ files.unsmry = Flatten(UnsmryPieces(Len(Keywords), <<1, 1, 1>>))

(***************************************************************************)
(* The lookup, stated on the metadata sequences of the object.             *)
(***************************************************************************)
\* thread t has the outcome of vector(keyword, identifier)
AnsweredFor(t, keyword, identifier) ==
    /\ op[t] = "vector"
    /\ pc[t] = "idle"
    /\ out[t].status # "none"
    /\ out[t].keyword = keyword
    /\ out[t].identifier = identifier

FirstOf(S) == CHOOSE j \in S : \A m \in S : j <= m

\* the positions (1-based) whose keyword and region number are the given ones
KeywordNumberRows(keyword, number) ==
    {j \in 1..Len(self.keywords_section) :
        /\ self.keywords_section[j] = PyStr(keyword)
        /\ self.nums_section[j] = PyInt(number)}

\* the outcome is column c (0-based) with the sign; the values returned are
\* that column of the file, each times the sign
GivesColumn(t, c, sign) ==
    /\ out[t].col = c
    /\ out[t].sign_mult = sign
    /\ (out[t].mode = "eager" \/ ~overlap[t]) =>
           /\ out[t].status = "returned"
           /\ out[t].kind = "series"
           /\ out[t].value = Expected(c, sign)

VectorNotFound == {"NoResult", "ValueError"}

\* the identifiers "r1 r2" requested, with the two numbers they hold
FlowCases == {<<I_1_2, 1, 2>>, <<I_2_1, 2, 1>>, <<I_3_7, 3, 7>>}
IsFlowKeyword(keyword) == Len(keyword) >= 3 /\ keyword[1] = 82 /\ keyword[3] = 70

\* C11: for a region-to-region flow keyword with identifier "r1 r2" the
\* lookup gives the first vector with region number r1 + 32768*(r2+10) and
\* sign +1; failing that, the first with r2 + 32768*(r1+10) and sign -1;
\* failing both, it fails.  No other request has sign -1, and every value
\* returned is multiplied by the sign.
C11_FlowForwardThenReversed ==
    \A t \in Threads :
        /\ \A case \in FlowCases :
              AnsweredFor(t, K_RWFT, case[1]) =>
                LET fwd == KeywordNumberRows(K_RWFT, Packed(case[2], case[3]))
                    rev == KeywordNumberRows(K_RWFT, Packed(case[3], case[2]))
                IN  IF fwd # {} THEN GivesColumn(t, FirstOf(fwd) - 1, 1)
                    ELSE IF rev # {} THEN GivesColumn(t, FirstOf(rev) - 1, -1)
                    ELSE out[t].status = "raised" /\ out[t].err = "NoResult"
        /\ (out[t].sign_mult = -1 \/ loc[t].sign_mult = -1) =>
              /\ IsFlowKeyword(loc[t].keyword)
              /\ \E case \in FlowCases :
                    /\ loc[t].identifier = case[1]
                    /\ KeywordNumberRows(loc[t].keyword, Packed(case[2], case[3])) = {}
                    /\ KeywordNumberRows(loc[t].keyword, Packed(case[3], case[2])) # {}

C11_Witness ==
    \E t \in Threads :
        /\ AnsweredFor(t, K_RWFT, I_1_2)
        /\ self.nums_section = Ints(Nums)
        /\ out[t].status = "returned"
        /\ out[t].mode = "on_demand"
        /\ out[t].col = 2
        /\ out[t].sign_mult = -1
        /\ out[t].value = Expected(2, -1)

\* C12: for a region-and-component keyword (RC*M) with identifier
\* "region comp" the lookup gives the first vector with that keyword and
\* region number region + 32768*(comp+10), whatever its entity name, and
\* fails only when there is none.
C12_RegionComponentByNumber ==
    \A t \in Threads :
        AnsweredFor(t, K_RCOM, I_1_2) =>
            LET rows == KeywordNumberRows(K_RCOM, Packed(1, 2))
            IN  IF rows # {} THEN GivesColumn(t, FirstOf(rows) - 1, 1)
                ELSE out[t].status = "raised"

\* the positions (1-based) whose keyword, entity name and region number are
\* the given ones
KeywordNameNumberRows(keyword, name, number) ==
    {j \in 1..Len(self.keywords_section) :
        /\ self.keywords_section[j] = PyStr(keyword)
        /\ self.wgnames_section[j] = PyStr(name)
        /\ self.nums_section[j] = PyInt(number)}

\* the requests "wellname n", with the name and the number they hold
WellNumberCases ==
    {<<K_COFR, I_P1_3, N_P1, 3>>, <<K_COFR, I_P1_4, N_P1, 4>>,
     <<K_SOFR, I_P1_3, N_P1, 3>>}

\* C13: for a completion/connection (C) or segment (S) keyword with
\* identifier "wellname n" the lookup gives the first vector whose keyword,
\* entity name and region number are the keyword, wellname and n, and fails
\* as not found only when there is none.
C13_WellAndNumberMatch ==
    \A t \in Threads : \A case \in WellNumberCases :
        AnsweredFor(t, case[1], case[2]) =>
            LET rows == KeywordNameNumberRows(case[1], case[3], case[4])
            IN  IF rows # {} THEN GivesColumn(t, FirstOf(rows) - 1, 1)
                ELSE out[t].status = "raised" /\ out[t].err \in VectorNotFound

(***************************************************************************)
(* The name lists, stated on the metadata sequences of the object.         *)
(***************************************************************************)
\* the positions whose keyword starts with the character first (0: any)
\* and whose entry in column is not empty
NamedRows(first, column) ==
    {j \in 1..Len(self.keywords_section) :
        /\ column[j].v # <<>>
        /\ first # 0 => (self.keywords_section[j].v # <<>>
                         /\ self.keywords_section[j].v[1] = first)}

\* list holds exactly the entries of column at the positions J, each once,
\* in the order in which they first appear
FirstAppearances(list, column, J) ==
    LET firstPos(x) == FirstOf({j \in J : column[j] = x})
    IN  /\ {list[k] : k \in 1..Len(list)} = {column[j] : j \in J}
        /\ \A a, b \in 1..Len(list) : a # b => list[a] # list[b]
        /\ \A a, b \in 1..Len(list) : a < b => firstPos(list[a]) < firstPos(list[b])

\* __process_smspec has returned
ModelBuilt == "vector_names" \in self.has

InsidePass(t) == pc[t] \in {"hdr", "rec", "rec_end", "od", "od_end"}

\* C15: the handle of a read pass is closed on every exit from the pass:
\* end of stream, frame mismatch, unexpected section name, unknown record
\* type; once a constructor or vector() call has returned or raised, no
\* handle it opened is open.
C15_HandleClosedOnEveryExit ==
    \A t \in Threads : ~InsidePass(t) => ~fh[t].open

C15_Witness ==
    \E t \in Threads :
        /\ op[t] = "vector"
        /\ pc[t] = "idle"
        /\ out[t].status = "raised"
        /\ out[t].err = "UnknownRecordType"
        /\ fh[t].file = "UNSMRY"
        /\ fh[t].pos > 0
        /\ ~fh[t].open

\* the exceptions of a lookup: a keyword category that is not supported,
\* or no vector that matches
LookupFailures == {"UnsupportedKeyword", "UnexpectedKeyword"} \cup VectorNotFound

\* C18: in either mode vector() looks the column up before it touches the
\* data file: a request whose lookup fails ends without opening the file,
\* and leaves the metadata, the mode flag, the table and the buffer of
\* earlier requests as they were.
C18_FailedLookupTouchesNothing ==
    [][\A t \in Threads :
          (/\ calls'[t] # calls[t]
           /\ out'[t].status = "raised"
           /\ out'[t].err \in LookupFailures)
              => /\ pc'[t] = "idle"
                 /\ fh' = fh
                 /\ ~fh'[t].open
                 /\ self' = self
                 /\ lists' = lists]_vars

C18_Witness ==
    \E t \in Threads :
        /\ AnsweredFor(t, K_WOPR, N_P2)
        /\ out[t].status = "raised"
        /\ out[t].err \in LookupFailures
        /\ ~fh[t].open
        /\ ~self.on_demand
        /\ self.dfparams = Table
        /\ self.param.kind = "frame"
        /\ self.param.rows # <<>>

(***************************************************************************)
(* The sparse reader, block by block.                                      *)
(***************************************************************************)
\* thread t takes the step of the sparse reader over one block
SparseBlockStep(t) == pc[t] = "od" /\ pc'[t] = "od_end"

\* C16: in one call of the sparse reader on a well-formed file, a block of
\* L bytes is decoded only when the target lies in [i, i + L/width); every
\* other block, the one that ends right before the target included, is
\* passed by a seek of L bytes.  So at most one element is decoded per call
\* and the cursor never moves backward.
C16_OnlyContainingBlockDecoded ==
    [][\A t \in Threads :
          (files.wf /\ SparseBlockStep(t)) =>
            LET L == loc'[t].block_length
                width == type_length(loc[t].record_type)
                target == loc[t].read_index + 1
                inside == loc[t].i <= target /\ target < loc[t].i + L \div width
            IN  /\ ~inside => /\ loc'[t].result = loc[t].result
                              /\ fh'[t].pos = loc'[t].start + L
                /\ loc[t].result # <<>> => loc'[t].result = loc[t].result
                /\ fh'[t].pos >= fh[t].pos]_vars

\* where __read_record leaves the cursor when it reads, from pos on, the
\* blocks of a section of num_records elements
RECURSIVE FullReadEnd(_, _, _, _, _)
FullReadEnd(file, pos, kind, i, num_records) ==
    LET n == IntFromBytes(FRead(file, pos, 4)) \div KindLength(kind)
    IN  IF i > num_records \/ n = 0 THEN pos
        ELSE FullReadEnd(file, pos + 4 + n * KindLength(kind) + 4, kind, i + n,
                         num_records)

\* the data file is a sequence of well-formed sections
SectionsWellFormed == files.wf \/ files.why \in {"shortrows", "shortnames"}

\* C17: on a well-formed section, for any target index, the sparse reader
\* is L bytes past the start of a block's payload when it reads the block's
\* trailing marker, and it leaves the cursor where the full reader leaves
\* it: right after the trailing marker of the section's last block.
C17_SparseCursorAsFull ==
    \A t \in Threads :
        SectionsWellFormed =>
            /\ pc[t] = "od_end" => fh[t].pos = loc[t].start + loc[t].block_length
            /\ (pc[t] = "od" /\ loc[t].i > loc[t].num_records) =>
                  fh[t].pos = FullReadEnd(Bytes(fh[t].file), loc[t].section_start,
                                          RecordKind(loc[t].record_type), 1,
                                          loc[t].num_records)

====
